---- MODULE Spec2Model ----
(***************************************************************************)
(* mongodb-s3-backup: the backup program (createMongoDBBackup and          *)
(* deleteOldBackups, started once or by a CronJob) and the restore program *)
(* (main, restore, listBackups, downloadBackup, decompressBackup,          *)
(* restoreToMongoDB), with the S3 bucket, the temporary directory and the  *)
(* MongoDB server they act on.                                             *)
(***************************************************************************)
EXTENDS Integers, Sequences, FiniteSets, TLC

VARIABLES
  env,      \* process.env: RETENTION_DAYS, CRON_SCHEDULE, MONGODB_URI
  now,      \* the wall clock (new Date())
  bucket,   \* the S3 bucket: key -> object (LastModified, Body) or NoObject
  tmp,      \* files of os.tmpdir(): file name -> content or NoFile
  db,       \* the MongoDB server: database -> collection -> state
  bk,       \* the createMongoDBBackup invocations: run id -> position and locals
  rs,       \* the restore program (main/restore/restoreToMongoDB): position and locals
  hist,     \* the restore invocations that have ended, oldest first
  codec     \* an encode/decode experiment on one BackupData

vars == <<env, now, bucket, tmp, db, bk, rs, hist, codec>>

-----------------------------------------------------------------------------
(* Bounds of the model. *)

MaxPayload == 1
Payloads == 0..MaxPayload

\* The clock runs from StartTime to MaxTime; a calendar day is DayLen ticks.
DayLen == 2
StartTime == 6
MaxTime == 7
\* createMongoDBBackup invocations a CronJob may start.
MaxRuns == 2
RunIds == 1..MaxRuns
\* Invocations of the restore program.
MaxRestores == 2

-----------------------------------------------------------------------------
(* Document values, as the MongoDB driver hands them to JavaScript. *)

\* How a string's characters came about: plain text, or the rendering of a
\* value that JSON.stringify obtained from a toJSON() method.
Encodings == {"text", "hex", "iso", "base64", "uuidhex"}

ValueTypes ==
  {"ObjectId", "Date", "Binary", "Decimal128", "Long", "UUID", "Double", "String", "Null"}

Val(t, enc, n) == [t |-> t, enc |-> enc, n |-> n]

Values ==
  {Val(t, "raw", n) : t \in ValueTypes \ {"String", "Null"}, n \in Payloads}
    \cup {Val("String", e, n) : e \in Encodings, n \in Payloads}
    \cup {Val("Null", "raw", 0)}

\* A plain object {low, high, unsigned}: what a Long turns into.
PlainObject(n) == Val("Object", "raw", n)

-----------------------------------------------------------------------------
(* JSON text, as a tree of JSON values. *)

JStr(enc, n)  == [j |-> "string", tag |-> "", enc |-> enc, n |-> n]
JNum(n)       == [j |-> "number", tag |-> "", enc |-> "raw", n |-> n]
JNull         == [j |-> "null", tag |-> "", enc |-> "raw", n |-> 0]
\* An object with the single key `tag` ("$oid", "$numberDecimal", ...), or, for
\* tag "fields", an object of plain number fields.
JObj(tag, n)  == [j |-> "object", tag |-> tag, enc |-> "raw", n |-> n]

\* JSON.stringify of one value: a value with a toJSON() method is replaced by
\* what the method returns; ObjectId, Date, Binary and UUID return a string,
\* Decimal128 returns {$numberDecimal}, Long has no toJSON() and is written
\* as its own fields.
JSON_stringify_value(v) ==
  CASE v.t = "ObjectId"   -> JStr("hex", v.n)
    [] v.t = "Date"       -> JStr("iso", v.n)
    [] v.t = "Binary"     -> JStr("base64", v.n)
    [] v.t = "UUID"       -> JStr("uuidhex", v.n)
    [] v.t = "Decimal128" -> JObj("$numberDecimal", v.n)
    [] v.t = "Long"       -> JObj("fields", v.n)
    [] v.t = "Object"     -> JObj("fields", v.n)
    [] v.t = "Double"     -> JNum(v.n)
    [] v.t = "String"     -> JStr(v.enc, v.n)
    [] v.t = "Null"       -> JNull

\* EJSON.parse of one JSON value (relaxed mode, the default): only the
\* Extended JSON wrappers are turned into BSON types.
EJSON_parse_value(x) ==
  CASE x.j = "string" -> Val("String", x.enc, x.n)
    [] x.j = "number" -> Val("Double", "raw", x.n)
    [] x.j = "null"   -> Val("Null", "raw", 0)
    [] x.j = "object" ->
         CASE x.tag = "$oid"           -> Val("ObjectId", "raw", x.n)
           [] x.tag = "$date"          -> Val("Date", "raw", x.n)
           [] x.tag = "$binary"        -> Val("Binary", "raw", x.n)
           [] x.tag = "$uuid"          -> Val("UUID", "raw", x.n)
           [] x.tag = "$numberDecimal" -> Val("Decimal128", "raw", x.n)
           [] x.tag = "$numberLong"    -> Val("Double", "raw", x.n)
           [] OTHER                    -> PlainObject(x.n)

MapSeq(s, F(_)) == [i \in 1..Len(s) |-> F(s[i])]

\* A document has the fields _id and val.
Doc(id, val) == [_id |-> id, val |-> val]
DocToJSON(d)   == [_id |-> JSON_stringify_value(d._id), val |-> JSON_stringify_value(d.val)]
DocFromJSON(d) == [_id |-> EJSON_parse_value(d._id), val |-> EJSON_parse_value(d.val)]

\* An index description as listIndexes() returns it: v, key, name and options.
\* Its members are plain numbers, strings and booleans.
Index(name, key, unique) == [v |-> 2, key |-> key, name |-> name, unique |-> unique]
IdIndex == Index("_id_", "_id", FALSE)
IndexToJSON(ix) ==
  [v |-> JNum(ix.v), key |-> ix.key, name |-> ix.name, unique |-> ix.unique]
IndexFromJSON(x) ==
  [v |-> EJSON_parse_value(x.v).n, key |-> x.key, name |-> x.name, unique |-> x.unique]

CollToJSON(c) ==
  [name |-> c.name,
   documents |-> MapSeq(c.documents, DocToJSON),
   indexes |-> MapSeq(c.indexes, IndexToJSON)]
CollFromJSON(c) ==
  [name |-> c.name,
   documents |-> MapSeq(c.documents, DocFromJSON),
   indexes |-> MapSeq(c.indexes, IndexFromJSON)]
DbToJSON(d)   == [name |-> d.name, collections |-> MapSeq(d.collections, CollToJSON)]
DbFromJSON(d) == [name |-> d.name, collections |-> MapSeq(d.collections, CollFromJSON)]

\* BackupData: the databases in insertion order, each with its collections in
\* insertion order, and the ISO timestamp (a string).
BackupData(dbs, t) == [databases |-> dbs, timestamp |-> Val("String", "iso", t)]

\* JSON.stringify(backup, null, 2)
JSON_stringify(backup) ==
  [fmt |-> "json",
   tree |-> [databases |-> MapSeq(backup.databases, DbToJSON),
             timestamp |-> JSON_stringify_value(backup.timestamp)]]

\* Text that is not JSON, and the archive mongodump --archive writes.
Garbage == [fmt |-> "garbage", tree |-> <<>>]
MongodumpArchive == [fmt |-> "mongodump", tree |-> <<>>]

\* createGzip() / createGunzip(): bytes that are a gzip stream of a text.
gzip(text) == [gz |-> TRUE, text |-> text]
NotGzip == [gz |-> FALSE, text |-> Garbage]
\* A file that holds a gzip stream without its end.
Truncated(bytes) == [bytes EXCEPT !.gz = FALSE]
gunzipOk(bytes) == bytes.gz
gunzip(bytes) == bytes.text

\* EJSON.parse(data): throws on text that is not JSON.
EJSON_parseOk(text) == text.fmt = "json"
EJSON_parse(text) ==
  [databases |-> MapSeq(text.tree.databases, DbFromJSON),
   timestamp |-> EJSON_parse_value(text.tree.timestamp)]

\* The archive the driver-based createMongoDBBackup writes for a BackupData.
EncodeArchive(backup) == gzip(JSON_stringify(backup))

\* decompressBackup: "ok" with the BackupData, or the rejection.
decompressBackup(bytes) ==
  IF ~gunzipOk(bytes) THEN [ok |-> FALSE, error |-> "gunzip", backup |-> <<>>]
  ELSE IF ~EJSON_parseOk(gunzip(bytes))
    THEN [ok |-> FALSE, error |-> "Failed to parse backup JSON", backup |-> <<>>]
    ELSE [ok |-> TRUE, error |-> "", backup |-> EJSON_parse(gunzip(bytes))]

-----------------------------------------------------------------------------
(* process.env *)

\* parseInt(s, 10) on a string given as its characters: an optional sign, then
\* the leading decimal digits; NaN when there is none.
Digits == <<"0", "1", "2", "3", "4", "5", "6", "7", "8", "9">>
IsDigit(c) == \E i \in 1..10 : Digits[i] = c
DigitVal(c) == (CHOOSE i \in 1..10 : Digits[i] = c) - 1

RECURSIVE LeadingDigits(_, _)
\* the value of the leading digits of s, continuing from acc
LeadingDigits(s, acc) ==
  IF s = <<>> \/ ~IsDigit(Head(s)) THEN acc
  ELSE LeadingDigits(Tail(s), 10 * acc + DigitVal(Head(s)))

NaN == [nan |-> TRUE, n |-> 0]
Num(n) == [nan |-> FALSE, n |-> n]

parseInt(s) ==
  LET neg  == s # <<>> /\ Head(s) = "-"
      body == IF s # <<>> /\ Head(s) \in {"-", "+"} THEN Tail(s) ELSE s
  IN IF body = <<>> \/ ~IsDigit(Head(body)) THEN NaN
     ELSE Num(IF neg THEN 0 - LeadingDigits(body, 0) ELSE LeadingDigits(body, 0))

\* The values of RETENTION_DAYS tried; <<>> is the variable unset (or empty).
RetentionStrings ==
  {<<>>, <<"0">>, <<"1">>, <<"2">>, <<"-", "1">>, <<"a", "b">>, <<"1", "d">>}

\* new URL(MONGODB_URI).pathname as its segments, and pathname.slice(1).
Pathnames == {<<>>, <<"/">>, <<"/", "app">>, <<"/", "logs">>, <<"/", "admin">>}
specificDatabase(pathname) == IF Len(pathname) <= 1 THEN "" ELSE pathname[2]

-----------------------------------------------------------------------------
(* The S3 bucket. Key d >= 0 is "<S3_KEY_PATH>/mongodb-backup-<day d>.gz";   *)
(* OtherKey is an object of the bucket outside the backup prefix.            *)

Days == 0..(MaxTime \div DayLen)
OtherKey == 0 - 1
Keys == Days \cup {OtherKey}
\* A file name taken from the instant instead of the day.
Instant(t) == t
\* The UTC calendar day of an instant: toISOString().split("T")[0]
Day(t) == t \div DayLen

S3Object(lm, body) == [lm |-> lm, body |-> body]
\* A listing whose Prefix matches every key of the bucket.
AnyKey(k) == TRUE
\* The Prefix of the listing: "mongodb-backup-", after S3_KEY_PATH if set.
UnderPrefix(k) == k >= 0

RECURSIVE KeysAscending(_)
\* the elements of a set of keys in ascending order
KeysAscending(S) ==
  IF S = {} THEN <<>>
  ELSE LET m == CHOOSE x \in S : \A y \in S : x <= y
       IN <<m>> \o KeysAscending(S \ {m})

\* The command names Bucket and Prefix only, neither MaxKeys nor a
\* ContinuationToken: S3 answers with one page, the first keys in key order
\* (1000 of them in S3, MaxKeys of them here), and IsTruncated is not read.
MaxKeys == 2
FirstPage(keys) == SubSeq(keys, 1, IF Len(keys) < MaxKeys THEN Len(keys) ELSE MaxKeys)

\* ListObjectsV2Command with the backup Prefix: Contents, in key order, of
\* {Key, LastModified}.
ListObjectsV2(b) ==
  MapSeq(FirstPage(KeysAscending({k \in DOMAIN b : UnderPrefix(k)})),
         LAMBDA k : [Key |-> k, LastModified |-> b[k].lm])

PutObject(b, k, obj) == [x \in DOMAIN b \cup {k} |-> IF x = k THEN obj ELSE b[x]]
DeleteObject(b, k) == [x \in DOMAIN b \ {k} |-> b[x]]

WriteFile(fs, f, content) == [x \in DOMAIN fs \cup {f} |-> IF x = f THEN content ELSE fs[x]]
Unlink(fs, f) == [x \in DOMAIN fs \ {f} |-> fs[x]]
\* unlinkSync inside try/catch: a missing file is not an error.
UnlinkIfThere(fs, f) == IF f \in DOMAIN fs THEN Unlink(fs, f) ELSE fs

-----------------------------------------------------------------------------
(* The MongoDB server. *)

DbOrder == <<"admin", "app", "logs">>
CollOrder == <<"orders", "users">>
DbNames == {DbOrder[i] : i \in 1..Len(DbOrder)}
CollNames == {CollOrder[i] : i \in 1..Len(CollOrder)}
SystemDatabases == {"admin", "local", "config"}

\* A collection: whether it exists, its documents in natural order, its
\* indexes in creation order (the _id index first), and the _id values its
\* validator rejects.
NoCollection == [exists |-> FALSE, docs |-> <<>>, indexes |-> <<>>, reject |-> {}]
Collection(docs, indexes, reject) ==
  [exists |-> TRUE, docs |-> docs, indexes |-> <<IdIndex>> \o indexes, reject |-> reject]

\* listDatabases(): the databases that hold a collection, by name.
listDatabases(server) ==
  SelectSeq(DbOrder, LAMBDA d : \E c \in CollNames : server[d][c].exists)
\* db.listCollections().toArray(): the names of the database's collections.
listCollections(server, d) ==
  SelectSeq(CollOrder, LAMBDA c : server[d][c].exists)

-----------------------------------------------------------------------------
(* The operations of the driver that restoreToMongoDB calls, on one          *)
(* collection of the server.                                                 *)

DuplicateKey == 11000
IndexOptionsConflict == 85
IndexKeySpecsConflict == 86

\* Whether inserting document d into the collection violates a unique index:
\* the _id index, or a unique index on val.
Collides(coll, d) ==
  \E i \in 1..Len(coll.docs) :
    \/ coll.docs[i]._id = d._id
    \/ /\ coll.docs[i].val = d.val
       /\ \E x \in 1..Len(coll.indexes) : coll.indexes[x].unique

\* The collection a first write creates.
Created(coll) == IF coll.exists THEN coll ELSE Collection(<<>>, <<>>, {})

RECURSIVE insertMany(_, _, _)
\* collection.insertMany(docs, {ordered: false}): every document is tried; a
\* document the validator rejects fails with code 121, one that collides with
\* code 11000. The result is the collection, the codes of the write errors in
\* the documents' order, and insertedCount.
insertMany(coll, docs, acc) ==
  IF docs = <<>> THEN [coll |-> coll, writeErrors |-> acc.writeErrors,
                       insertedCount |-> acc.insertedCount]
  ELSE LET d == Head(docs)
       IN IF d._id \in coll.reject
            THEN insertMany(coll, Tail(docs),
                            [acc EXCEPT !.writeErrors = Append(@, 121)])
          ELSE IF Collides(coll, d)
            THEN insertMany(coll, Tail(docs),
                            [acc EXCEPT !.writeErrors = Append(@, DuplicateKey)])
            ELSE insertMany([Created(coll) EXCEPT !.docs = Append(@, d)], Tail(docs),
                            [acc EXCEPT !.insertedCount = @ + 1])

NoWrites == [writeErrors |-> <<>>, insertedCount |-> 0]

\* error.code of the MongoBulkWriteError: the code of the first write error
\* (0: the call resolved).
bulkErrorCode(result) ==
  IF result.writeErrors = <<>> THEN 0 ELSE result.writeErrors[1]

\* const indexSpec = {...index}; delete indexSpec.v; delete indexSpec.ns
indexSpec(index) == [key |-> index.key, name |-> index.name, unique |-> index.unique]

HasDuplicateVal(coll) ==
  \E i, k \in 1..Len(coll.docs) : i # k /\ coll.docs[i].val = coll.docs[k].val

\* A createIndex that puts the requested index in the place of an index of
\* the same name.
replaceIndex(coll, spec) ==
  [code |-> 0,
   coll |-> [Created(coll) EXCEPT
               !.indexes = SelectSeq(@, LAMBDA e : e.name # spec.name)
                             \o <<Index(spec.name, spec.key, spec.unique)>>]]
\* collection.createIndex(key, options): the error code (0: created, or an
\* identical index exists) and the collection.
createIndex(coll, spec) ==
  LET existing == {coll.indexes[i] : i \in 1..Len(coll.indexes)}
      sameName == {e \in existing : e.name = spec.name}
      sameKey  == {e \in existing : e.key = spec.key}
  IN IF \E e \in sameName : indexSpec(e) = spec
       THEN [code |-> 0, coll |-> coll]
     ELSE IF \E e \in sameName : e.key # spec.key
       THEN [code |-> IndexKeySpecsConflict, coll |-> coll]
     ELSE IF sameName # {} \/ sameKey # {}
       THEN [code |-> IndexOptionsConflict, coll |-> coll]
     ELSE IF spec.unique /\ HasDuplicateVal(coll)
       THEN [code |-> DuplicateKey, coll |-> coll]
       ELSE [code |-> 0,
             coll |-> [Created(coll) EXCEPT
                         !.indexes = Append(@, Index(spec.name, spec.key, spec.unique))]]

-----------------------------------------------------------------------------
(* The restore program: main, restore, listBackups, downloadBackup,          *)
(* decompressBackup and restoreToMongoDB.                                    *)

\* collection.drop(): the collection, its documents, indexes and validator go.
\* A drop that leaves the collection as it was.
keepCollection(coll) == coll
\* collection.drop()
dropCollection(coll) == NoCollection

\* error.code === 11000
\* A test that takes no bulk write error for a duplicate key.
isNoError(code) == code = 0
\* error.code === 11000
isDuplicateKeyError(code) == code = DuplicateKey

NoArg == 0 - 2
NoKey == 0 - 3
\* The file arguments tried: none, or the archive of day 0 or day 1.
FileArgs == {NoArg, 0, 1}

\* The comparator of listBackups' sort: negative when a goes before b.
compareBackups(a, b) == b.lastModified - a.lastModified

RECURSIVE sort(_, _)
\* Array.prototype.sort with compareBackups (stable): the elements of `rest`
\* are inserted one by one into `sorted`.
sort(sorted, rest) ==
  IF rest = <<>> THEN sorted
  ELSE LET x == Head(rest)
           k == Cardinality({i \in 1..Len(sorted) : compareBackups(sorted[i], x) <= 0})
       IN sort(SubSeq(sorted, 1, k) \o <<x>> \o SubSeq(sorted, k + 1, Len(sorted)),
               Tail(rest))

\* listBackups(): {key, lastModified} of every object under the prefix, the
\* latest first.
listBackups(b) ==
  sort(<<>>, MapSeq(ListObjectsV2(b),
                    LAMBDA obj : [key |-> obj.Key, lastModified |-> obj.LastModified]))

EmptyBackup == BackupData(<<>>, 0)

IdleRestore ==
  [pc |-> "idle", file |-> NoArg, dropExisting |-> FALSE, s3Key |-> NoKey,
   tempFilePath |-> NoKey, backup |-> EmptyBackup, di |-> 0, ci |-> 0, ii |-> 0,
   failed |-> FALSE, report |-> <<>>, log |-> <<>>, before |-> <<>>]

\* The program ends with an exit code: the invocation is recorded.
Exit(run, code, outcome, server) ==
  /\ hist' = Append(hist, [file |-> run.file, dropExisting |-> run.dropExisting,
                           s3Key |-> run.s3Key, exit |-> code, outcome |-> outcome,
                           backup |-> run.backup, report |-> run.report, log |-> run.log,
                           before |-> run.before, after |-> server])
  /\ rs' = IdleRestore

\* The finally block of restore: the temporary file is unlinked when
\* tempFilePath is set (an error of unlinkSync is caught).
unlinkTemp(run, fs) ==
  IF run.tempFilePath # NoKey THEN UnlinkIfThere(fs, run.tempFilePath) ELSE fs

\* restore() up to its first await: the key of the named file, or listBackups.
restore(run) ==
  IF run.file # NoArg
    THEN [run EXCEPT !.s3Key = run.file, !.pc = "download"]
    ELSE [run EXCEPT !.pc = "list"]

\* main() is started with its arguments; --drop waits three seconds first.
main(file, dropExisting) ==
  /\ rs.pc = "idle"
  /\ Len(hist) < MaxRestores
  /\ \A r \in RunIds : bk[r].pc \in {"new", "done"}
  /\ LET run == [IdleRestore EXCEPT !.file = file, !.dropExisting = dropExisting,
                                    !.before = db]
     IN rs' = IF dropExisting THEN [run EXCEPT !.pc = "warn"] ELSE restore(run)
  /\ UNCHANGED <<env, now, bucket, tmp, db, bk, hist, codec>>

\* The three seconds of the --drop warning are over.
Warned ==
  /\ rs.pc = "warn"
  /\ rs' = restore(rs)
  /\ UNCHANGED <<env, now, bucket, tmp, db, bk, hist, codec>>

\* listBackups() resolves with no backup: process.exit(1).
NoBackupsFound ==
  /\ rs.pc = "list"
  /\ listBackups(bucket) = <<>>
  /\ Exit(rs, 1, "No backups found in S3", db)
  /\ UNCHANGED <<env, now, bucket, tmp, db, bk, codec>>

\* listBackups() resolves: the latest backup is backups[0].
LatestFound ==
  /\ rs.pc = "list"
  /\ listBackups(bucket) # <<>>
  /\ rs' = [rs EXCEPT !.s3Key = listBackups(bucket)[1].key, !.pc = "download"]
  /\ UNCHANGED <<env, now, bucket, tmp, db, bk, hist, codec>>

\* GetObject rejects (no such key): restore throws before tempFilePath is set.
DownloadFailed ==
  /\ rs.pc = "download"
  /\ rs.s3Key \notin DOMAIN bucket
  /\ Exit(rs, 1, "Restore failed", db)
  /\ UNCHANGED <<env, now, bucket, tmp, db, bk, codec>>

\* GetObject resolves: the body is piped into the temporary file.
DownloadStarted ==
  /\ rs.pc = "download"
  /\ rs.s3Key \in DOMAIN bucket
  /\ tmp' = WriteFile(tmp, rs.s3Key, NotGzip)
  /\ rs' = [rs EXCEPT !.pc = "save"]
  /\ UNCHANGED <<env, now, bucket, db, bk, hist, codec>>

\* writeStream "finish": downloadBackup returns the path and decompressBackup
\* starts to read the file.
Downloaded ==
  /\ rs.pc = "save"
  /\ rs.s3Key \in DOMAIN bucket
  /\ tmp' = WriteFile(tmp, rs.s3Key, bucket[rs.s3Key].body)
  /\ rs' = [rs EXCEPT !.tempFilePath = rs.s3Key, !.pc = "decompress"]
  /\ UNCHANGED <<env, now, bucket, db, bk, hist, codec>>

\* writeStream "error": downloadBackup rejects, tempFilePath is still null.
SaveFailed ==
  /\ rs.pc = "save"
  /\ Exit(rs, 1, "Restore failed", db)
  /\ UNCHANGED <<env, now, bucket, tmp, db, bk, codec>>

\* A restore that goes on to restoreToMongoDB when decompressBackup rejects.
DecompressIgnored ==
  /\ rs.pc = "decompress"
  /\ rs.tempFilePath \in DOMAIN tmp
  /\ ~decompressBackup(tmp[rs.tempFilePath]).ok
  /\ rs' = [rs EXCEPT !.pc = "connect"]
  /\ UNCHANGED <<env, now, bucket, tmp, db, bk, hist, codec>>

\* decompressBackup rejects (gunzip or EJSON.parse).
DecompressFailed ==
  /\ rs.pc = "decompress"
  /\ rs.tempFilePath \in DOMAIN tmp
  /\ ~decompressBackup(tmp[rs.tempFilePath]).ok
  /\ tmp' = unlinkTemp(rs, tmp)
  /\ Exit(rs, 1, "Restore failed", db)
  /\ UNCHANGED <<env, now, bucket, db, bk, codec>>

\* decompressBackup resolves: restoreToMongoDB connects.
Decompressed ==
  /\ rs.pc = "decompress"
  /\ rs.tempFilePath \in DOMAIN tmp
  /\ decompressBackup(tmp[rs.tempFilePath]).ok
  /\ rs' = [rs EXCEPT !.backup = decompressBackup(tmp[rs.tempFilePath]).backup,
                      !.pc = "connect"]
  /\ UNCHANGED <<env, now, bucket, tmp, db, bk, hist, codec>>

\* A restore that takes every database of the archive.
anyDatabase(dbName) == TRUE
\* The scope test of restoreToMongoDB: the database is restored unless the URI
\* names another one.
inScope(dbName) ==
  ~(specificDatabase(env.pathname) # "" /\ dbName # specificDatabase(env.pathname))

\* A loop that skips no index.
isNoIndex(index) == FALSE
\* if (index.name === "_id_") continue
isIdIndex(index) == index.name = "_id_"

RECURSIVE seek(_, _, _, _)
\* The loops of restoreToMongoDB from database di, collection ci, at `phase`
\* ("drop", "insert" or "index" ii), up to the next awaited call.
seek(run, di, ci, phase) ==
  LET dbs == run.backup.databases
  IN IF di > Len(dbs) THEN [run EXCEPT !.pc = "close"]
     ELSE IF ~inScope(dbs[di].name) \/ ci > Len(dbs[di].collections)
       THEN seek([run EXCEPT !.ii = 1], di + 1, 1, "drop")
     ELSE LET collData == dbs[di].collections[ci]
          IN CASE phase = "drop" ->
                    IF run.dropExisting
                      THEN [run EXCEPT !.di = di, !.ci = ci, !.pc = "drop"]
                      ELSE seek(run, di, ci, "insert")
               [] phase = "insert" ->
                    IF Len(collData.documents) > 0
                      THEN [run EXCEPT !.di = di, !.ci = ci, !.pc = "insert"]
                      ELSE seek([run EXCEPT !.ii = 1], di, ci, "index")
               [] phase = "index" ->
                    IF run.ii > Len(collData.indexes)
                      THEN seek([run EXCEPT !.ii = 1], di, ci + 1, "drop")
                    ELSE IF isIdIndex(collData.indexes[run.ii])
                      THEN seek([run EXCEPT !.ii = @ + 1], di, ci, "index")
                      ELSE [run EXCEPT !.di = di, !.ci = ci, !.pc = "index"]

Op(op, d, c, name, code) == [op |-> op, db |-> d, coll |-> c, name |-> name, code |-> code]

\* client.connect() resolves.
RestoreConnected ==
  /\ rs.pc = "connect"
  /\ rs' = seek([rs EXCEPT !.log = Append(@, Op("connect", "", "", "", 0)), !.ii = 1],
                1, 1, "drop")
  /\ UNCHANGED <<env, now, bucket, tmp, db, bk, hist, codec>>

CurrentDb == rs.backup.databases[rs.di].name
CurrentColl == rs.backup.databases[rs.di].collections[rs.ci]

\* A restore that drops the database of the collection it is about to restore.
DatabaseDropped ==
  /\ rs.pc = "drop"
  /\ db' = [db EXCEPT ![CurrentDb] = [c \in CollNames |-> NoCollection]]
  /\ rs' = seek([rs EXCEPT !.log = Append(@, Op("drop", CurrentDb, CurrentColl.name, "", 0))],
                rs.di, rs.ci, "insert")
  /\ UNCHANGED <<env, now, bucket, tmp, bk, hist, codec>>

\* collection.drop() settles: a missing collection (NamespaceNotFound) is ignored.
Dropped ==
  /\ rs.pc = "drop"
  /\ db' = [db EXCEPT ![CurrentDb][CurrentColl.name] = dropCollection(@)]
  /\ rs' = seek([rs EXCEPT !.log = Append(@, Op("drop", CurrentDb, CurrentColl.name, "", 0))],
                rs.di, rs.ci, "insert")
  /\ UNCHANGED <<env, now, bucket, tmp, bk, hist, codec>>

\* The line restoreToMongoDB logs for a collection's insertMany.
Report(d, c, attempted, inserted, skipped) ==
  [db |-> d, coll |-> c, attempted |-> attempted, inserted |-> inserted, skipped |-> skipped]

\* collection.insertMany settles: resolved, or rejected with a duplicate key
\* as its code, which is reported and skipped.
Inserted ==
  /\ rs.pc = "insert"
  /\ LET docs   == CurrentColl.documents
         result == insertMany(db[CurrentDb][CurrentColl.name], docs, NoWrites)
         code   == bulkErrorCode(result)
         count  == IF code = 0 THEN Len(docs) ELSE result.insertedCount
     IN /\ code = 0 \/ isDuplicateKeyError(code)
        /\ db' = [db EXCEPT ![CurrentDb][CurrentColl.name] = result.coll]
        /\ rs' = seek([rs EXCEPT
                         !.log = Append(@, Op("insertMany", CurrentDb, CurrentColl.name, "", code)),
                         !.report = Append(@, Report(CurrentDb, CurrentColl.name, Len(docs),
                                                     count, Len(docs) - count)),
                         !.ii = 1],
                      rs.di, rs.ci, "index")
  /\ UNCHANGED <<env, now, bucket, tmp, bk, hist, codec>>

\* collection.insertMany rejects with another code: the error is rethrown and
\* the finally block closes the client.
InsertFailed ==
  /\ rs.pc = "insert"
  /\ LET result == insertMany(db[CurrentDb][CurrentColl.name], CurrentColl.documents, NoWrites)
         code   == bulkErrorCode(result)
     IN /\ code # 0 /\ ~isDuplicateKeyError(code)
        /\ db' = [db EXCEPT ![CurrentDb][CurrentColl.name] = result.coll]
        /\ rs' = [rs EXCEPT
                    !.log = Append(@, Op("insertMany", CurrentDb, CurrentColl.name, "", code)),
                    !.failed = TRUE, !.pc = "close"]
  /\ UNCHANGED <<env, now, bucket, tmp, bk, hist, codec>>

\* What restoreToMongoDB logs when createIndex settles with `code`.
indexLine(code) ==
  IF code = 0 THEN "Created index"
  ELSE IF code = IndexOptionsConflict \/ code = IndexKeySpecsConflict
    THEN "Index already exists"
    ELSE "Warning creating index"

\* A restore that rethrows the rejection of createIndex.
IndexCreatedOrThrown ==
  /\ rs.pc = "index"
  /\ LET index  == CurrentColl.indexes[rs.ii]
         result == createIndex(db[CurrentDb][CurrentColl.name], indexSpec(index))
         logged == [rs EXCEPT
                      !.log = Append(@, Op("createIndex", CurrentDb, CurrentColl.name,
                                           index.name, result.code)),
                      !.ii = @ + 1]
     IN /\ db' = [db EXCEPT ![CurrentDb][CurrentColl.name] = result.coll]
        /\ rs' = IF result.code = 0 THEN seek(logged, rs.di, rs.ci, "index")
                 ELSE [logged EXCEPT !.failed = TRUE, !.pc = "close"]
  /\ UNCHANGED <<env, now, bucket, tmp, bk, hist, codec>>

\* collection.createIndex settles: every rejection is caught and logged.
IndexCreated ==
  /\ rs.pc = "index"
  /\ LET index  == CurrentColl.indexes[rs.ii]
         result == createIndex(db[CurrentDb][CurrentColl.name], indexSpec(index))
     IN /\ db' = [db EXCEPT ![CurrentDb][CurrentColl.name] = result.coll]
        /\ rs' = seek([rs EXCEPT
                         !.log = Append(@, Op("createIndex", CurrentDb, CurrentColl.name,
                                              index.name, result.code)),
                         !.ii = @ + 1],
                      rs.di, rs.ci, "index")
  /\ UNCHANGED <<env, now, bucket, tmp, bk, hist, codec>>

\* client.close() resolves: restore's finally removes the temporary file and
\* main ends, with exit code 1 when restoreToMongoDB threw.
RestoreClosed ==
  /\ rs.pc = "close"
  /\ tmp' = unlinkTemp(rs, tmp)
  /\ IF rs.failed THEN Exit(rs, 1, "Restore failed", db)
                  ELSE Exit(rs, 0, "Restore completed successfully", db)
  /\ UNCHANGED <<env, now, bucket, db, bk, codec>>

RestoreStep ==
  \/ Warned \/ NoBackupsFound \/ LatestFound
  \/ DownloadFailed \/ DownloadStarted \/ Downloaded \/ SaveFailed
  \/ DecompressFailed \/ Decompressed
  \/ RestoreConnected \/ Dropped \/ Inserted \/ InsertFailed \/ IndexCreated
  \/ RestoreClosed

NextRestore ==
  \/ \E file \in FileArgs, dropExisting \in BOOLEAN : main(file, dropExisting)
  \/ RestoreStep

-----------------------------------------------------------------------------
(* The backup program: createMongoDBBackup and deleteOldBackups.  An action *)
(* is what runs when an awaited call settles, up to the next await.         *)

NewRun ==
  [pc |-> "new", startedAt |-> 0, day |-> 0, timestamp |-> 0,
   databasesToBackup |-> <<>>, di |-> 0, collections |-> <<>>, ci |-> 0,
   documents |-> <<>>, databases |-> <<>>,
   cutoffDate |-> 0, cleanupAt |-> 0, seen |-> <<>>,
   objectsToDelete |-> <<>>, i |-> 0, attempted |-> {}, deleted |-> {},
   uploaded |-> FALSE, uploadedAt |-> 0, failed |-> FALSE, failedAt |-> "none",
   flushed |-> TRUE, cleanup |-> "none", outcome |-> "none"]

\* The guard of deleteOldBackups: RETENTION_DAYS is set and parses to a
\* positive number.
retentionDays == parseInt(env.RETENTION_DAYS)
\* A guard that only tests whether RETENTION_DAYS is set.
retentionSet == env.RETENTION_DAYS # <<>>
retentionEnabled ==
  /\ env.RETENTION_DAYS # <<>>
  /\ ~retentionDays.nan
  /\ retentionDays.n > 0

\* A cutoff that lies retentionDays after the present.
cutoffAhead(t, days) == t + days * DayLen
\* cutoffDate.setDate(cutoffDate.getDate() - retentionDays)
cutoffDate(t, days) == t - days * DayLen

\* The filter of deleteOldBackups: obj.LastModified < cutoffDate
isOld(obj, cutoff) == obj.LastModified < cutoff

\* The end of createMongoDBBackup: the driver-based program closes its client
\* in `finally`; the mongodump-based one returns.
Finish(run) ==
  IF env.script = "driver" THEN [run EXCEPT !.pc = "close"]
  ELSE [run EXCEPT !.pc = "done", !.outcome = IF run.failed THEN "failed" ELSE "ok"]

\* The catch block of createMongoDBBackup: unlink the temporary file (an error
\* of unlinkSync is caught) and rethrow.  failedAt records the await that
\* rejected.
Catch(run) == Finish([run EXCEPT !.failed = TRUE, !.failedAt = run.pc])

\* createMongoDBBackup is called: the file name is taken from the UTC day.
createMongoDBBackup(r) ==
  /\ bk[r].pc = "new"
  /\ bk' = [bk EXCEPT ![r] = [@ EXCEPT !.day = Day(now), !.startedAt = now,
                                       !.pc = IF env.script = "driver"
                                              THEN "connect" ELSE "dump"]]
  /\ UNCHANGED <<env, now, bucket, tmp, db, rs, hist, codec>>

\* The program was started without CRON_SCHEDULE: one backup.
RunOnce ==
  /\ ~env.CRON_SCHEDULE
  /\ rs.pc = "idle"
  /\ \A r \in RunIds : bk[r].pc = "new"
  /\ createMongoDBBackup(1)

\* The CronJob fires: onTick calls createMongoDBBackup.
\* The schedule fires at most once per instant; nothing in the program tells
\* the job whether the previous call has settled.
CronTick ==
  /\ env.CRON_SCHEDULE
  /\ \E r \in RunIds :
       /\ \A q \in RunIds : q < r => bk[q].pc # "new" /\ bk[q].startedAt < now
       /\ createMongoDBBackup(r)

\* mongodump closes with code 0: the promise resolves and the upload is sent
\* with a read stream of the temporary file.  The write stream that
\* mongodump.stdout is piped into is not awaited: it has finished, or its last
\* writes are still pending.
DumpClosed(r) ==
  /\ bk[r].pc = "dump"
  /\ \E finished \in BOOLEAN :
       /\ tmp' = WriteFile(tmp, bk[r].day,
                           IF finished THEN gzip(MongodumpArchive)
                           ELSE Truncated(gzip(MongodumpArchive)))
       /\ bk' = [bk EXCEPT ![r] = [@ EXCEPT !.flushed = finished, !.pc = "upload"]]
  /\ UNCHANGED <<env, now, bucket, db, rs, hist, codec>>

\* The write stream of the dump finishes: the file is complete, unless the
\* run has unlinked it by now.
WriteFinished(r) ==
  /\ ~bk[r].flushed
  /\ tmp' = IF bk[r].pc = "upload" /\ bk[r].day \in DOMAIN tmp
              THEN WriteFile(tmp, bk[r].day, gzip(MongodumpArchive))
              ELSE tmp
  /\ bk' = [bk EXCEPT ![r] = [@ EXCEPT !.flushed = TRUE]]
  /\ UNCHANGED <<env, now, bucket, db, rs, hist, codec>>

\* mongodump fails to start or closes with another code.
DumpFailed(r) ==
  /\ bk[r].pc = "dump"
  /\ tmp' = UnlinkIfThere(tmp, bk[r].day)
  /\ bk' = [bk EXCEPT ![r] = Catch(@)]
  /\ UNCHANGED <<env, now, bucket, db, rs, hist, codec>>

\* What follows the reading of one collection or database.
AfterCollection(run) ==
  IF run.ci < Len(run.collections)
    THEN [run EXCEPT !.ci = @ + 1, !.pc = "find"]
  ELSE IF run.di < Len(run.databasesToBackup)
    THEN [run EXCEPT !.di = @ + 1, !.pc = "listCollections"]
    ELSE [run EXCEPT !.pc = "write"]

\* The databases to back up: the one the URI names, else all but the system's.
scopedDatabases(pathname) == <<specificDatabase(pathname)>>
userDatabases(server) ==
  SelectSeq(listDatabases(server), LAMBDA d : d \notin SystemDatabases)

\* client.connect() resolves.
Connected(r) ==
  /\ bk[r].pc = "connect"
  /\ bk' = [bk EXCEPT ![r] =
       IF specificDatabase(env.pathname) # ""
         THEN [@ EXCEPT !.timestamp = now,
                        !.databasesToBackup = scopedDatabases(env.pathname),
                        !.di = 1, !.pc = "listCollections"]
         ELSE [@ EXCEPT !.timestamp = now, !.pc = "listDatabases"]]
  /\ UNCHANGED <<env, now, bucket, tmp, db, rs, hist, codec>>

\* admin.listDatabases() resolves.
DatabasesListed(r) ==
  /\ bk[r].pc = "listDatabases"
  /\ bk' = [bk EXCEPT ![r] =
       IF userDatabases(db) = <<>>
         THEN [@ EXCEPT !.pc = "write"]
         ELSE [@ EXCEPT !.databasesToBackup = userDatabases(db),
                        !.di = 1, !.pc = "listCollections"]]
  /\ UNCHANGED <<env, now, bucket, tmp, db, rs, hist, codec>>

\* db.listCollections().toArray() resolves.
CollectionsListed(r) ==
  /\ bk[r].pc = "listCollections"
  /\ LET run   == bk[r]
         name  == run.databasesToBackup[run.di]
         colls == listCollections(db, name)
         entry == [name |-> name, collections |-> <<>>]
         next  == [run EXCEPT !.databases = Append(@, entry),
                              !.collections = colls, !.ci = 0]
     IN bk' = [bk EXCEPT ![r] = AfterCollection(next)]
  /\ UNCHANGED <<env, now, bucket, tmp, db, rs, hist, codec>>

\* collection.find({}).toArray() resolves.
Found(r) ==
  /\ bk[r].pc = "find"
  /\ LET run == bk[r]
         d   == run.databasesToBackup[run.di]
         c   == run.collections[run.ci]
     IN bk' = [bk EXCEPT ![r] = [@ EXCEPT !.documents = db[d][c].docs,
                                          !.pc = "listIndexes"]]
  /\ UNCHANGED <<env, now, bucket, tmp, db, rs, hist, codec>>

\* collection.listIndexes().toArray() resolves.
IndexesListed(r) ==
  /\ bk[r].pc = "listIndexes"
  /\ LET run  == bk[r]
         d    == run.databasesToBackup[run.di]
         c    == run.collections[run.ci]
         coll == [name |-> c, documents |-> run.documents, indexes |-> db[d][c].indexes]
         n    == Len(run.databases)
         next == [run EXCEPT !.databases[n].collections = Append(@, coll),
                             !.documents = <<>>]
     IN bk' = [bk EXCEPT ![r] = AfterCollection(next)]
  /\ UNCHANGED <<env, now, bucket, tmp, db, rs, hist, codec>>

\* The awaits of the driver-based backup that read the database.
Reads == {"listDatabases", "listCollections", "find", "listIndexes"}

\* A backup that goes on to write what it has read when a read rejects.
ReadSkipped(r) ==
  /\ bk[r].pc \in Reads
  /\ bk' = [bk EXCEPT ![r] = [@ EXCEPT !.failedAt = bk[r].pc, !.pc = "write"]]
  /\ UNCHANGED <<env, now, bucket, tmp, db, rs, hist, codec>>

\* listDatabases, listCollections, find or listIndexes rejects: the catch block
\* unlinks the temporary file of the day, if there is one, and rethrows.
ReadFailed(r) ==
  /\ bk[r].pc \in Reads
  /\ tmp' = UnlinkIfThere(tmp, bk[r].day)
  /\ bk' = [bk EXCEPT ![r] = Catch(@)]
  /\ UNCHANGED <<env, now, bucket, db, rs, hist, codec>>

\* writeStream "finish": the gzipped JSON is in the temporary file.
Written(r) ==
  /\ bk[r].pc = "write"
  /\ tmp' = WriteFile(tmp, bk[r].day,
                      EncodeArchive(BackupData(bk[r].databases, bk[r].timestamp)))
  /\ bk' = [bk EXCEPT ![r] = [@ EXCEPT !.pc = "upload"]]
  /\ UNCHANGED <<env, now, bucket, db, rs, hist, codec>>

\* deleteOldBackups up to its first await.
deleteOldBackups(run) ==
  IF ~retentionEnabled
    THEN Finish([run EXCEPT !.cleanup = "skipped"])
    ELSE [run EXCEPT !.cutoffDate = cutoffDate(now, retentionDays.n),
                     !.cleanupAt = now, !.pc = "cleanup_list"]

\* The upload resolves: the object is stored, the temporary file is removed
\* and deleteOldBackups is called.
Uploaded(r) ==
  /\ bk[r].pc = "upload"
  /\ bk[r].day \in DOMAIN tmp
  /\ bucket' = PutObject(bucket, bk[r].day, S3Object(now, tmp[bk[r].day]))
  /\ tmp' = Unlink(tmp, bk[r].day)
  /\ bk' = [bk EXCEPT ![r] = deleteOldBackups([@ EXCEPT !.uploaded = TRUE, !.uploadedAt = now])]
  /\ UNCHANGED <<env, now, db, rs, hist, codec>>

\* A backup that runs deleteOldBackups when its upload was rejected.
UploadFailedThenCleanup(r) ==
  /\ bk[r].pc = "upload"
  /\ tmp' = UnlinkIfThere(tmp, bk[r].day)
  /\ bk' = [bk EXCEPT ![r] = deleteOldBackups([@ EXCEPT !.failed = TRUE,
                                                        !.failedAt = "upload"])]
  /\ UNCHANGED <<env, now, bucket, db, rs, hist, codec>>

\* The upload rejects (the file is gone, or the storage call fails).
UploadFailed(r) ==
  /\ bk[r].pc = "upload"
  /\ tmp' = UnlinkIfThere(tmp, bk[r].day)
  /\ bk' = [bk EXCEPT ![r] = Catch(@)]
  /\ UNCHANGED <<env, now, bucket, db, rs, hist, codec>>

\* response.Contents.filter(...), as the keys to delete
objectsToDelete(contents, cutoff) ==
  MapSeq(SelectSeq(contents, LAMBDA obj : isOld(obj, cutoff)), LAMBDA obj : obj.Key)

\* The delete loop after the delete of objectsToDelete[i] resolved: the next
\* delete is sent, or the cleanup is complete.
nextDelete(run) ==
  IF run.i < Len(run.objectsToDelete)
    THEN [run EXCEPT !.i = @ + 1,
                     !.attempted = @ \cup {run.objectsToDelete[run.i + 1]}]
    ELSE Finish([run EXCEPT !.cleanup = "ok"])

\* A deleteOldBackups that lets the rejection of a delete reach its caller.
deleteRethrown(run) == Catch([run EXCEPT !.cleanup = "error"])
\* A delete rejected: the catch of deleteOldBackups logs and returns.
deleteFailed(run) == Finish([run EXCEPT !.cleanup = "error"])

\* ListObjectsV2 resolves.
Listed(r) ==
  /\ bk[r].pc = "cleanup_list"
  /\ LET run  == bk[r]
         old  == objectsToDelete(ListObjectsV2(bucket), run.cutoffDate)
         seen == [run EXCEPT !.seen = bucket]
     IN bk' = [bk EXCEPT ![r] =
          IF old = <<>>
            THEN Finish([seen EXCEPT !.cleanup = "ok"])
            ELSE [seen EXCEPT !.objectsToDelete = old, !.i = 1,
                              !.attempted = {old[1]}, !.pc = "cleanup_delete"]]
  /\ UNCHANGED <<env, now, bucket, tmp, db, rs, hist, codec>>

\* ListObjectsV2 rejects: caught in deleteOldBackups.
ListFailed(r) ==
  /\ bk[r].pc = "cleanup_list"
  /\ bk' = [bk EXCEPT ![r] = Finish([@ EXCEPT !.cleanup = "error"])]
  /\ UNCHANGED <<env, now, bucket, tmp, db, rs, hist, codec>>

\* DeleteObject of objectsToDelete[i] resolves.
Deleted(r) ==
  /\ bk[r].pc = "cleanup_delete"
  /\ LET key == bk[r].objectsToDelete[bk[r].i]
     IN /\ bucket' = DeleteObject(bucket, key)
        /\ bk' = [bk EXCEPT ![r] = nextDelete([@ EXCEPT !.deleted = @ \cup {key}])]
  /\ UNCHANGED <<env, now, tmp, db, rs, hist, codec>>

\* DeleteObject of objectsToDelete[i] rejects.
DeleteFailed(r) ==
  /\ bk[r].pc = "cleanup_delete"
  /\ bk' = [bk EXCEPT ![r] = deleteFailed(@)]
  /\ UNCHANGED <<env, now, bucket, tmp, db, rs, hist, codec>>

\* client.close() resolves: createMongoDBBackup settles.
Closed(r) ==
  /\ bk[r].pc = "close"
  /\ bk' = [bk EXCEPT ![r] = [@ EXCEPT !.pc = "done",
                                       !.outcome = IF bk[r].failed THEN "failed"
                                                   ELSE "ok"]]
  /\ UNCHANGED <<env, now, bucket, tmp, db, rs, hist, codec>>

\* Time passes.
Tick ==
  /\ now < MaxTime
  /\ now' = now + 1
  /\ UNCHANGED <<env, bucket, tmp, db, bk, rs, hist, codec>>

-----------------------------------------------------------------------------
(* The backup program started once (no CRON_SCHEDULE). *)

IdleCodec == [stage |-> "idle"]

d1 == Doc(Val("ObjectId", "raw", 0), Val("String", "text", 0))
d2 == Doc(Val("ObjectId", "raw", 1), Val("Date", "raw", 0))
d3 == Doc(Val("String", "hex", 0), Val("Long", "raw", 1))
ix_a == Index("val_1", "val", FALSE)
ix_b == Index("val_-1", "val_desc", TRUE)

EmptyServer == [d \in DbNames |-> [c \in CollNames |-> NoCollection]]

\* A server with two user databases and a collection in admin.
SampleServer ==
  [EmptyServer EXCEPT
     !["admin"]["users"]  = Collection(<<d3>>, <<>>, {}),
     !["app"]["users"]    = Collection(<<d1, d2>>, <<ix_a>>, {}),
     !["app"]["orders"]   = Collection(<<>>, <<ix_b>>, {}),
     !["logs"]["orders"]  = Collection(<<d3>>, <<>>, {})]

\* The buckets a backup may find: the archive of day d was stored on day d or
\* later, and the bucket may hold an object outside the backup prefix.
InitialBucketsOf(body) ==
  LET LastModifieds ==
        {f \in [Keys -> (0 - 1)..StartTime] :
           /\ \A k \in Days : f[k] >= 0 => f[k] >= k * DayLen
           /\ f[OtherKey] <= 0}
  IN {[k \in {x \in Keys : f[x] >= 0} |-> S3Object(f[k], body)] : f \in LastModifieds}
InitialBuckets == InitialBucketsOf(gzip(MongodumpArchive))

InitBackup ==
  /\ env \in [RETENTION_DAYS : RetentionStrings, CRON_SCHEDULE : {FALSE},
              pathname : {<<>>, <<"/", "app">>}, script : {"driver", "mongodump"}]
  /\ now = StartTime
  /\ bucket \in InitialBuckets
  /\ tmp = <<>>
  /\ db = SampleServer
  /\ bk = [r \in RunIds |-> NewRun]
  /\ rs = IdleRestore
  /\ hist = <<>>
  /\ codec = IdleCodec

BackupStep(r) ==
  \/ DumpClosed(r) \/ DumpFailed(r) \/ WriteFinished(r)
  \/ Connected(r) \/ DatabasesListed(r) \/ CollectionsListed(r)
  \/ Found(r) \/ IndexesListed(r) \/ ReadFailed(r) \/ Written(r)
  \/ Uploaded(r) \/ UploadFailed(r)
  \/ Listed(r) \/ ListFailed(r) \/ Deleted(r) \/ DeleteFailed(r)
  \/ Closed(r)

NextBackup == RunOnce \/ Tick \/ \E r \in RunIds : BackupStep(r)

SpecBackup == InitBackup /\ [][NextBackup]_vars

\* The retention horizon RETENTION_DAYS states, for a value that is one
\* decimal digit other than 0.
IsPositiveHorizon(s) == Len(s) = 1 /\ IsDigit(s[1]) /\ s[1] # "0"
Horizon(s) == CHOOSE n \in 1..9 : Digits[n + 1] = s[1]

\* The archives of a bucket whose last-modified time is strictly before the
\* cutoff of a cleanup started at time t.
Expired(b, t) ==
  {k \in DOMAIN b : UnderPrefix(k) /\ b[k].lm < t - Horizon(env.RETENTION_DAYS) * DayLen}

\* C1: with a positive retention horizon, a cleanup in which no storage call
\* failed has deleted exactly the archives that were last modified strictly
\* before cutoff = now - horizonDays, and the bucket is the one it listed
\* without them: no other object is deleted.
C1_DeletesExactlyExpired ==
  \A r \in RunIds :
    (/\ IsPositiveHorizon(env.RETENTION_DAYS)
     /\ bk[r].pc = "done"
     /\ bk[r].cleanup = "ok")
    => /\ bk[r].deleted = Expired(bk[r].seen, bk[r].cleanupAt)
       /\ bucket = [k \in DOMAIN bk[r].seen \ Expired(bk[r].seen, bk[r].cleanupAt)
                      |-> bk[r].seen[k]]

\* The keys of the page a cleanup was answered with.
ListedKeys(b) == {ListObjectsV2(b)[i].Key : i \in 1..Len(ListObjectsV2(b))}

\* C2: when a cleanup has ended, a delete was attempted for every archive of
\* the listing that was last modified before the cutoff, whether or not the
\* delete of an earlier archive of the list failed.
C2_EveryExpiredDeleteAttempted ==
  \A r \in RunIds :
    (/\ IsPositiveHorizon(env.RETENTION_DAYS)
     /\ bk[r].pc = "done"
     /\ bk[r].seen # <<>>)
    => (Expired(bk[r].seen, bk[r].cleanupAt) \cap ListedKeys(bk[r].seen))
         \subseteq bk[r].attempted

-----------------------------------------------------------------------------
(* The backup program started with CRON_SCHEDULE. *)

InitCron ==
  /\ env \in {[RETENTION_DAYS |-> <<>>, CRON_SCHEDULE |-> TRUE,
                pathname |-> <<>>, script |-> "driver"],
               [RETENTION_DAYS |-> <<"1">>, CRON_SCHEDULE |-> TRUE,
                pathname |-> <<"/", "app">>, script |-> "driver"],
               [RETENTION_DAYS |-> <<"1">>, CRON_SCHEDULE |-> TRUE,
                pathname |-> <<>>, script |-> "mongodump"]}
  /\ now \in {StartTime - 1, StartTime}
  /\ bucket \in {b \in InitialBuckets :
                   DOMAIN b \subseteq {0} /\ \A k \in DOMAIN b : b[k].lm = 0}
  /\ tmp = <<>>
  /\ db = SampleServer
  /\ bk = [r \in RunIds |-> NewRun]
  /\ rs = IdleRestore
  /\ hist = <<>>
  /\ codec = IdleCodec

NextCron == CronTick \/ Tick \/ \E r \in RunIds : BackupStep(r)

SpecCron == InitCron /\ [][NextCron]_vars

InProgress(r) == bk[r].pc \notin {"new", "done"}

\* C3: under a recurring schedule at most one createMongoDBBackup run is in
\* progress at any time.
C3_RunsNeverOverlap ==
  env.CRON_SCHEDULE => Cardinality({r \in RunIds : InProgress(r)}) <= 1

-----------------------------------------------------------------------------
(* The archive codec on its own: a BackupData is encoded as the driver-based *)
(* createMongoDBBackup encodes it and decoded as decompressBackup decodes it. *)

\* Snapshots of one database with one collection of one or two documents.
CodecInputs ==
  {BackupData(<<[name |-> "app",
                 collections |-> <<[name |-> "users", documents |-> docs,
                                    indexes |-> <<IdIndex, ix_a>>]>>]>>, StartTime) :
     docs \in {<<Doc(id, val)>> : id \in Values, val \in Values}}

InitCodec ==
  /\ env = [RETENTION_DAYS |-> <<>>, CRON_SCHEDULE |-> FALSE,
            pathname |-> <<>>, script |-> "driver"]
  /\ now = StartTime
  /\ bucket = <<>>
  /\ tmp = <<>>
  /\ db = EmptyServer
  /\ bk = [r \in RunIds |-> NewRun]
  /\ rs = IdleRestore
  /\ hist = <<>>
  /\ codec \in {[stage |-> "input", original |-> s, archive |-> NotGzip,
                 decoded |-> decompressBackup(NotGzip)] : s \in CodecInputs}

\* JSON.stringify and gzip, as in createMongoDBBackup
CodecEncode ==
  /\ codec.stage = "input"
  /\ codec' = [codec EXCEPT !.stage = "encoded",
                            !.archive = EncodeArchive(codec.original)]
  /\ UNCHANGED <<env, now, bucket, tmp, db, bk, rs, hist>>

\* gunzip and EJSON.parse, as in decompressBackup
CodecDecode ==
  /\ codec.stage = "encoded"
  /\ codec' = [codec EXCEPT !.stage = "decoded",
                            !.decoded = decompressBackup(codec.archive)]
  /\ UNCHANGED <<env, now, bucket, tmp, db, bk, rs, hist>>

NextCodec == CodecEncode \/ CodecDecode

SpecCodec == InitCodec /\ [][NextCodec]_vars

\* C4: decoding what the driver-based backup encoded yields the original
\* snapshot, every value with its original type.
C4_RoundTrip ==
  codec.stage = "decoded"
    => codec.decoded.ok /\ codec.decoded.backup = codec.original

-----------------------------------------------------------------------------
(* The restore program alone. *)

\* The BackupData the driver-based createMongoDBBackup assembles from a server
\* for the databases `names`.
Capture(server, names, t) ==
  BackupData(
    MapSeq(names, LAMBDA d :
      [name |-> d,
       collections |-> MapSeq(listCollections(server, d), LAMBDA c :
         [name |-> c, documents |-> server[d][c].docs,
          indexes |-> server[d][c].indexes])]),
    t)

\* The archive of all user databases of SampleServer.
ArchiveA == EncodeArchive(Capture(SampleServer, userDatabases(SampleServer), 0))

\* A server whose app.users holds two documents with the same val, two _id
\* values that JSON.stringify writes alike, and a unique index that was built
\* on other data.
d4 == Doc(Val("String", "hex", 0), Val("String", "text", 0))
TwinServer ==
  [EmptyServer EXCEPT
     !["app"]["users"] = Collection(<<d1, d4, d2>>, <<ix_b, ix_a>>, {})]
ArchiveB == EncodeArchive(Capture(TwinServer, userDatabases(TwinServer), 2))

decoded(d) == DocFromJSON(DocToJSON(d))

\* Targets of a restore: app.users is missing, the collection the backup was
\* taken from, one that holds a restored document, one whose validator rejects
\* a captured document, or one with both and an index named like a captured
\* one; logs.orders is missing or restored; logs.users is in no archive.
TargetServers ==
  {[EmptyServer EXCEPT !["app"]["users"] = users, !["logs"]["orders"] = orders,
                       !["logs"]["users"] = Collection(<<d1>>, <<ix_a>>, {})] :
     users \in {NoCollection,
                Collection(<<d1, d2>>, <<ix_a>>, {}),
                Collection(<<decoded(d1)>>, <<>>, {}),
                Collection(<<>>, <<>>, {decoded(d2)._id}),
                Collection(<<decoded(d1)>>, <<Index("val_1", "val_desc", FALSE)>>,
                           {decoded(d2)._id})},
     orders \in {NoCollection, Collection(<<decoded(d3)>>, <<>>, {})}}

RestoreEnv(pathnames) ==
  [RETENTION_DAYS : {<<>>}, CRON_SCHEDULE : {FALSE}, pathname : pathnames,
   script : {"driver"}]

InitRestore ==
  /\ env \in RestoreEnv({<<>>, <<"/", "app">>})
  /\ now = StartTime
  /\ bucket \in {(0 :> S3Object(1, ArchiveA)),
                 (0 :> S3Object(3, ArchiveA)) @@ (1 :> S3Object(2, ArchiveB)),
                 (0 :> S3Object(1, ArchiveB)) @@ (1 :> S3Object(2, ArchiveB))
                   @@ (2 :> S3Object(4, ArchiveA)),
                 (0 :> S3Object(1, gzip(MongodumpArchive))) @@ (1 :> S3Object(2, NotGzip)),
                 (OtherKey :> S3Object(0, ArchiveA)),
                 <<>>}
  /\ tmp = <<>>
  /\ db \in TargetServers
  /\ bk = [r \in RunIds |-> NewRun]
  /\ rs = IdleRestore
  /\ hist = <<>>
  /\ codec = IdleCodec

SpecRestore == InitRestore /\ [][NextRestore]_vars

\* Restore invocations i and i + 1 handed the same snapshot to
\* restoreToMongoDB, with the same --drop setting.
Twice(i, dropExisting) ==
  /\ i + 1 <= Len(hist)
  /\ hist[i].backup # EmptyBackup
  /\ hist[i].backup = hist[i + 1].backup
  /\ hist[i].dropExisting = dropExisting
  /\ hist[i + 1].dropExisting = dropExisting

Range(seq) == {seq[i] : i \in 1..Len(seq)}

\* The database, collection and document count of every collection of a
\* BackupData that is in scope and holds documents.
CapturedCounts(backup) ==
  {<<backup.databases[i].name, backup.databases[i].collections[k].name,
     Len(backup.databases[i].collections[k].documents)>> :
     <<i, k>> \in {p \in (1..Len(backup.databases)) \X (1..Len(CollOrder)) :
                     /\ inScope(backup.databases[p[1]].name)
                     /\ p[2] <= Len(backup.databases[p[1]].collections)
                     /\ backup.databases[p[1]].collections[p[2]].documents # <<>>}}

\* C5: after a restore without --drop that succeeded, restoring the same
\* archive again without --drop succeeds too, inserts no document, reports
\* every captured document of every restored collection as a skipped
\* duplicate, and leaves every collection with the document count it had.
C5_SecondRestoreSkipsAll ==
  \A i \in 1..MaxRestores :
    (Twice(i, FALSE) /\ hist[i].exit = 0)
    => /\ hist[i + 1].exit = 0
       /\ \A rep \in Range(hist[i + 1].report) :
            rep.inserted = 0 /\ rep.skipped = rep.attempted
       /\ {<<rep.db, rep.coll, rep.skipped>> : rep \in Range(hist[i + 1].report)}
            = CapturedCounts(hist[i + 1].backup)
       /\ \A d \in DbNames, c \in CollNames :
            Len(hist[i + 1].after[d][c].docs) = Len(hist[i].after[d][c].docs)

\* C5 witness: the first restore inserted a document and skipped another, the
\* second one reported documents.
C5_Witness ==
  /\ Twice(1, FALSE)
  /\ hist[1].exit = 0
  /\ \E rep \in Range(hist[1].report) : rep.inserted > 0 /\ rep.skipped > 0
  /\ hist[2].report # <<>>

\* The collections of a BackupData that a restore in scope processes.
Restored(backup) ==
  {<<backup.databases[i].name, backup.databases[i].collections[k]>> :
     <<i, k>> \in {p \in (1..Len(backup.databases)) \X (1..Len(CollOrder)) :
                     /\ inScope(backup.databases[p[1]].name)
                     /\ p[2] <= Len(backup.databases[p[1]].collections)}}

\* C6: two restores of the same archive with --drop in a row leave the same
\* server state, whatever the target held: a restored collection holds only
\* captured documents and captured indexes.
C6_DropRestoreIdempotent ==
  \A i \in 1..MaxRestores :
    Twice(i, TRUE)
    => /\ hist[i + 1].after = hist[i].after
       /\ hist[i + 1].exit = hist[i].exit
       /\ hist[i].exit = 0 =>
            \A p \in Restored(hist[i].backup) :
              LET coll == hist[i].after[p[1]][p[2].name]
              IN /\ Range(coll.docs) \subseteq Range(p[2].documents)
                 /\ Range(coll.indexes) \subseteq Range(p[2].indexes)

\* C6 witness: the archive was restored twice with --drop into a target whose
\* collection held other documents, another index and a validator.
C6_Witness ==
  /\ Twice(1, TRUE)
  /\ hist[1].exit = 0
  /\ hist[1].before["app"]["users"].reject # {}
  /\ hist[1].before["app"]["users"].docs # <<>>
  /\ hist[1].after # hist[1].before
  /\ Len(hist[1].after["app"]["users"].docs) >= 2

\* The index creations a restore issued for an index of a collection.
IndexAttempts(log, d, c, name) ==
  Cardinality({i \in 1..Len(log) :
                 /\ log[i].op = "createIndex"
                 /\ log[i].db = d /\ log[i].coll = c /\ log[i].name = name})

\* C10: no restore issues an index creation for the index named "_id_"; no
\* captured index is created twice in one restore, and a restore that
\* completed has issued exactly one creation for every other captured index
\* of every collection it restored.
C10_IdIndexNeverCreated ==
  /\ \A i \in 1..Len(rs.log) : rs.log[i].op = "createIndex" => rs.log[i].name # "_id_"
  /\ \A h \in Range(hist) :
       /\ \A i \in 1..Len(h.log) : h.log[i].op = "createIndex" => h.log[i].name # "_id_"
       /\ \A p \in Restored(h.backup) : \A index \in Range(p[2].indexes) :
            /\ IndexAttempts(h.log, p[1], p[2].name, index.name) <= 1
            /\ (h.exit = 0 /\ index.name # "_id_")
                 => IndexAttempts(h.log, p[1], p[2].name, index.name) = 1

\* C10 witness: a completed restore of collections whose captured index lists
\* all hold "_id_" created two other indexes.
C10_Witness ==
  \E h \in Range(hist) :
    /\ h.exit = 0
    /\ Restored(h.backup) # {}
    /\ \A p \in Restored(h.backup) : IdIndex \in Range(p[2].indexes)
    /\ Cardinality({i \in 1..Len(h.log) : h.log[i].op = "createIndex"}) >= 2

\* The archives of a bucket under the backup prefix.
Archives(b) == DOMAIN b \cap Days

\* C8: a restore started with no file against a bucket with no archive under
\* the prefix ends with exit code 1 and "No backups found in S3"; it never
\* connects, drops, inserts or creates an index, and the server is unchanged.
C8_EmptyRepositoryFails ==
  /\ (rs.pc # "idle" /\ rs.file = NoArg /\ Archives(bucket) = {})
       => rs.pc \in {"warn", "list"} /\ rs.log = <<>> /\ db = rs.before
  /\ \A h \in Range(hist) :
       (h.file = NoArg /\ Archives(bucket) = {})
       => /\ h.exit = 1
          /\ h.outcome = "No backups found in S3"
          /\ h.log = <<>>
          /\ h.after = h.before

\* C8 witness: restores with no file, with and without --drop, ended against a
\* bucket that holds only an object outside the prefix, the server holding
\* collections.
C8_Witness ==
  /\ Len(hist) = 2
  /\ hist[1].file = NoArg /\ hist[2].file = NoArg
  /\ hist[1].dropExisting /\ ~hist[2].dropExisting
  /\ Archives(bucket) = {} /\ OtherKey \in DOMAIN bucket
  /\ hist[1].exit = 1
  /\ db["app"]["users"] # NoCollection

\* C9: listBackups returns the archives sorted by last-modified time
\* descending, and a restore started with no file restores its first element,
\* an archive last modified no earlier than any other archive under the
\* prefix.
C9_RestoresLatest ==
  /\ \A i, j \in 1..Len(listBackups(bucket)) :
       i < j => listBackups(bucket)[i].lastModified >= listBackups(bucket)[j].lastModified
  /\ (rs.file = NoArg /\ rs.s3Key # NoKey)
       => /\ rs.s3Key = listBackups(bucket)[1].key
          /\ \A k \in Archives(bucket) : bucket[rs.s3Key].lm >= bucket[k].lm

-----------------------------------------------------------------------------
(* The driver-based backup and the restore program with the same MONGODB_URI, *)
(* one after the other.                                                       *)

\* SampleServer with a validator on app.users that rejects a restored document.
StrictServer ==
  [SampleServer EXCEPT !["app"]["users"] = Collection(<<>>, <<>>, {decoded(d2)._id})]

InitScope ==
  /\ env \in RestoreEnv({<<>>, <<"/", "app">>, <<"/", "admin">>})
  /\ now = StartTime
  /\ bucket \in {<<>>, (0 :> S3Object(1, ArchiveA)), (0 :> S3Object(1, NotGzip))}
  /\ tmp = <<>>
  /\ db \in {SampleServer, StrictServer}
  /\ bk = [r \in RunIds |-> NewRun]
  /\ rs = IdleRestore
  /\ hist = <<>>
  /\ codec = IdleCodec

ProducerStep(r) ==
  \/ Connected(r) \/ DatabasesListed(r) \/ CollectionsListed(r)
  \/ Found(r) \/ IndexesListed(r) \/ Written(r)
  \/ Uploaded(r) \/ UploadFailed(r) \/ Closed(r)

NextScope == NextRestore \/ RunOnce \/ \E r \in RunIds : ProducerStep(r)

SpecScope == InitScope /\ [][NextScope]_vars

\* The database operations of a restore log.
Writes(log) == {i \in 1..Len(log) : log[i].op \in {"drop", "insertMany", "createIndex"}}

\* C7: when the URI names a database, a restore issues drops, inserts and
\* index creations against that database only, whatever databases the archive
\* holds, and a backup run captures that database only.
C7_OnlyNamedDatabase ==
  specificDatabase(env.pathname) # ""
  => /\ \A i \in Writes(rs.log) : rs.log[i].db = specificDatabase(env.pathname)
     /\ \A h \in Range(hist) : \A i \in Writes(h.log) :
          h.log[i].db = specificDatabase(env.pathname)
     /\ \A r \in RunIds : \A i \in 1..Len(bk[r].databases) :
          bk[r].databases[i].name = specificDatabase(env.pathname)

\* C7 witness: with a URI that names app, a restore of an archive of app and
\* logs completed and wrote to the server, and a backup run completed and
\* captured a database.
C7_Witness ==
  /\ specificDatabase(env.pathname) = "app"
  /\ \E h \in Range(hist) :
       /\ h.exit = 0
       /\ {h.backup.databases[i].name : i \in 1..Len(h.backup.databases)} = {"app", "logs"}
       /\ Writes(h.log) # {}
  /\ bk[1].pc = "done" /\ bk[1].outcome = "ok" /\ bk[1].databases # <<>>

-----------------------------------------------------------------------------
(* Index creation and failures of the restore program. *)

\* The indexes of the collection the restore is at.
TargetIndexes == db[CurrentDb][CurrentColl.name].indexes

\* C11: when createIndex is called for an index that the target collection
\* already holds with the same name, key and options, the call resolves and the
\* collection's indexes are unchanged; when the collection holds an index of
\* the same name with another specification, its indexes are unchanged too and
\* the restore logs "Index already exists" instead of "Created index".
C11_IndexIdempotence ==
  [][IndexCreated =>
       LET spec == indexSpec(CurrentColl.indexes[rs.ii])
           code == rs'.log[Len(rs'.log)].code
       IN /\ (\E e \in Range(TargetIndexes) : indexSpec(e) = spec)
               => /\ code = 0
                  /\ db'[CurrentDb][CurrentColl.name].indexes = TargetIndexes
          /\ (\E e \in Range(TargetIndexes) : e.name = spec.name /\ indexSpec(e) # spec)
               => /\ indexLine(code) = "Index already exists"
                  /\ db'[CurrentDb][CurrentColl.name].indexes = TargetIndexes]_vars

\* C11 witness: a restore without --drop has ended that called createIndex for
\* val_1 on a collection that held val_1 on another key, and the collection
\* still holds that index.
C11_Witness ==
  \E h \in Range(hist) :
    /\ ~h.dropExisting
    /\ Index("val_1", "val_desc", FALSE) \in Range(h.before["app"]["users"].indexes)
    /\ IndexAttempts(h.log, "app", "users", "val_1") = 1
    /\ Index("val_1", "val_desc", FALSE) \in Range(h.after["app"]["users"].indexes)

\* No backup run and no restore is in progress.
AllEnded == rs.pc = "idle" /\ \A r \in RunIds : bk[r].pc \in {"new", "done"}

\* C12: when a backup run or a restore has ended, however it ended, no
\* temporary archive file is left in the temporary directory.
C12_NoTempFileLeft == AllEnded => DOMAIN tmp = {}

\* C13: the snapshot a driver-based backup run assembles holds no system
\* database (admin, local, config), whether or not the URI names a database.
C13_NoSystemDatabase ==
  \A r \in RunIds : \A i \in 1..Len(bk[r].databases) :
    bk[r].databases[i].name \notin SystemDatabases

-----------------------------------------------------------------------------
(* Cleanup and failures of the backup program. *)

\* The values of RETENTION_DAYS that state no positive horizon: absent, zero,
\* negative, not a number.
NoHorizon == {<<>>, <<"0">>, <<"-", "1">>, <<"a", "b">>}

\* The run is at a list or delete call of deleteOldBackups.
InCleanup(run) == run.pc \in {"cleanup_list", "cleanup_delete"}

\* C14: when RETENTION_DAYS is absent, zero, negative or not a number, no step
\* of a backup run sends a list or a delete call, the bucket is not changed
\* once the archive is uploaded, and a run that uploaded ends successfully
\* with the cleanup skipped.
C14_NoHorizonNoCleanup ==
  [][env.RETENTION_DAYS \in NoHorizon =>
       \A r \in RunIds :
         /\ ~InCleanup(bk'[r])
         /\ bk'[r].attempted = {} /\ bk'[r].deleted = {}
         /\ bk[r].uploaded => bucket' = bucket
         /\ (bk'[r].uploaded /\ bk'[r].pc = "done")
              => bk'[r].outcome = "ok" /\ bk'[r].cleanup = "skipped"]_vars

\* C14 witness: with RETENTION_DAYS=0 a run has uploaded and ended, and the
\* bucket still holds an archive last modified at time 0.
C14_Witness ==
  /\ env.RETENTION_DAYS = <<"0">>
  /\ bk[1].pc = "done" /\ bk[1].uploaded /\ bk[1].outcome = "ok"
  /\ \E k \in Archives(bucket) : bucket[k].lm = 0

\* Two instants of the same UTC calendar day.
SameDay(t, u) == \E d \in Days : {t, u} \subseteq (d * DayLen)..(d * DayLen + DayLen - 1)

Later(t, u) == IF t >= u THEN t ELSE u

\* C15 as stated: two backup runs whose uploads completed on the same calendar
\* day wrote the same key.
C15_SameKeyByCompletionDay ==
  \A r, q \in RunIds :
    (bk[r].uploaded /\ bk[q].uploaded /\ SameDay(bk[r].uploadedAt, bk[q].uploadedAt))
    => bk[r].day = bk[q].day

\* C15: two backup runs that started on the same calendar day upload to the
\* same key, so the bucket holds one archive for that day; while it is stored,
\* it is an upload of a run, completed no earlier than either of the two.
C15_SameKeyByStartDay ==
  \A r, q \in RunIds :
    (bk[r].uploaded /\ bk[q].uploaded /\ SameDay(bk[r].startedAt, bk[q].startedAt))
    => /\ bk[r].day = bk[q].day
       /\ bk[r].day \in DOMAIN bucket
            => /\ bucket[bk[r].day].lm >= Later(bk[r].uploadedAt, bk[q].uploadedAt)
               /\ \E p \in RunIds : /\ bk[p].uploaded /\ bk[p].day = bk[r].day
                                    /\ bucket[bk[r].day].lm = bk[p].uploadedAt

\* C15 witness: two runs started at different instants of one day have both
\* uploaded, at different instants, and one archive of that day is stored.
C15_Witness ==
  /\ bk[1].uploaded /\ bk[2].uploaded
  /\ bk[1].startedAt # bk[2].startedAt
  /\ SameDay(bk[1].startedAt, bk[2].startedAt)
  /\ bk[1].uploadedAt # bk[2].uploadedAt
  /\ bk[1].day \in DOMAIN bucket

\* The write errors of the insertMany the restore is waiting for.
PendingWriteErrors ==
  insertMany(db[CurrentDb][CurrentColl.name], CurrentColl.documents, NoWrites).writeErrors

\* C16: when a document of a bulk insert fails with another error than a
\* duplicate key, whatever the other documents of the bulk do, the restore
\* processes no further collection and goes on to end as failed.
C16_OtherWriteErrorPropagates ==
  [][(/\ rs.pc = "insert"
      /\ \E i \in 1..Len(PendingWriteErrors) : PendingWriteErrors[i] # DuplicateKey)
     => (rs'.failed /\ rs'.pc = "close")]_vars

\* The positions of a restore log at which createIndex was rejected.
IndexFailures(log) == {i \in 1..Len(log) : log[i].op = "createIndex" /\ log[i].code # 0}

\* The positions of a restore log at which insertMany was rejected with
\* another code than a duplicate key.
InsertFailures(log) ==
  {i \in 1..Len(log) : log[i].op = "insertMany" /\ log[i].code \notin {0, DuplicateKey}}

\* C17: a restore in which createIndex was rejected, with a conflict or with
\* any other error, and no insertMany was rethrown, ends successfully, having
\* inserted into every collection in scope that holds documents and having
\* called createIndex for every captured index but "_id_".
C17_IndexFailureNeverAborts ==
  /\ \A i \in IndexFailures(rs.log) : InsertFailures(rs.log) = {} => ~rs.failed
  /\ \A h \in Range(hist) :
       (IndexFailures(h.log) # {} /\ InsertFailures(h.log) = {})
       => /\ h.exit = 0
          /\ \A p \in Restored(h.backup) :
               /\ p[2].documents # <<>>
                    => \E i \in 1..Len(h.log) :
                         /\ h.log[i].op = "insertMany"
                         /\ h.log[i].db = p[1] /\ h.log[i].coll = p[2].name
               /\ \A index \in Range(p[2].indexes) :
                    index.name # "_id_"
                      => IndexAttempts(h.log, p[1], p[2].name, index.name) = 1

\* C17 witness: a restore ended successfully in which createIndex was rejected
\* with another error than a conflict and the next index was then created.
C17_Witness ==
  \E h \in Range(hist) :
    /\ h.exit = 0
    /\ \E i \in IndexFailures(h.log) :
         /\ indexLine(h.log[i].code) = "Warning creating index"
         /\ \E k \in 1..Len(h.log) : i < k /\ h.log[k].op = "createIndex"

\* C18: once listDatabases, listCollections, find or listIndexes has rejected in
\* a driver-based backup, the run writes no temporary file, uploads nothing,
\* calls neither ListObjectsV2 nor DeleteObject, and no step of the run
\* changes the bucket.
C18_ReadFailureAborts ==
  [][\A r \in RunIds :
       bk'[r].failedAt \in Reads
       => /\ bk'[r].pc \in {"close", "done"}
          /\ ~bk'[r].uploaded
          /\ ~InCleanup(bk'[r])
          /\ bk'[r].seen = <<>> /\ bk'[r].attempted = {} /\ bk'[r].deleted = {}
          /\ bk'[r].pc = "done" => bk'[r].outcome = "failed"
          /\ bk'[r] # bk[r] => bucket' = bucket /\ DOMAIN tmp' \subseteq DOMAIN tmp]_vars

\* C18 witness: a run ended as failed after a rejected find, having read a
\* database before, over a bucket that holds archives.
C18_Witness ==
  \E r \in RunIds :
    /\ bk[r].pc = "done" /\ bk[r].outcome = "failed"
    /\ bk[r].failedAt = "find"
    /\ Len(bk[r].databases) = 2
    /\ Archives(bucket) # {}

\* A run that has called ListObjectsV2 or DeleteObject.
CleanupStarted(run) ==
  \/ InCleanup(run)
  \/ run.cleanup \in {"ok", "error"}
  \/ run.seen # <<>> \/ run.attempted # {} \/ run.deleted # {}

\* C19: a backup run calls ListObjectsV2 or DeleteObject only after its own
\* upload resolved, and not before the instant it resolved; a run whose dump,
\* read or upload was rejected never calls either.
C19_CleanupOnlyAfterUpload ==
  \A r \in RunIds :
    /\ CleanupStarted(bk[r])
         => /\ bk[r].uploaded /\ ~bk[r].failed
            /\ bk[r].cleanupAt >= bk[r].uploadedAt
    /\ (bk[r].failed \/ bk[r].failedAt # "none") => ~CleanupStarted(bk[r])

\* C19 witness: a run that uploaded its archive has listed the bucket and is
\* deleting an expired archive.
C19_Witness ==
  \E r \in RunIds :
    /\ bk[r].uploaded
    /\ bk[r].pc = "cleanup_delete"
    /\ bk[r].attempted # {}

\* The archive a restore has downloaded cannot be gunzipped or cannot be parsed.
Undecodable ==
  /\ rs.pc = "decompress"
  /\ rs.tempFilePath \in DOMAIN tmp
  /\ ~decompressBackup(tmp[rs.tempFilePath]).ok

\* C20: when the downloaded archive cannot be gunzipped or its text cannot be
\* parsed, the restore has issued no database operation so far, and its next
\* step ends it with exit code 1 and "Restore failed", the temporary file
\* removed and the server as it was when the restore started.
C20_UndecodableArchiveAborts ==
  [][Undecodable
     => /\ rs.log = <<>> /\ db = rs.before
        /\ Len(hist') = Len(hist) + 1
        /\ LET h == hist'[Len(hist')]
           IN /\ h.exit = 1 /\ h.outcome = "Restore failed"
              /\ Writes(h.log) = {} /\ h.after = h.before
        /\ db' = db
        /\ rs.tempFilePath \notin DOMAIN tmp']_vars

\* C20 witness: one restore failed on an archive that is not a gzip stream and
\* another on a gzip stream that holds no JSON (a mongodump archive), over a
\* server that holds documents.
C20_Witness ==
  /\ \E h \in Range(hist) :
       /\ h.exit = 1 /\ h.s3Key \in DOMAIN bucket
       /\ decompressBackup(bucket[h.s3Key].body).error = "gunzip"
  /\ \E h \in Range(hist) :
       /\ h.exit = 1 /\ h.s3Key \in DOMAIN bucket
       /\ decompressBackup(bucket[h.s3Key].body).error = "Failed to parse backup JSON"
       /\ h.before["app"]["users"] # NoCollection

\* C21: while a run's upload is pending, the write of its temporary file has
\* finished, and the object a run has stored is a complete gzip stream.
C21_UploadAfterWriteFinished ==
  \A r \in RunIds :
    /\ bk[r].pc = "upload" => bk[r].flushed
    /\ (bk[r].uploaded /\ bk[r].day \in DOMAIN bucket
          /\ bucket[bk[r].day].lm = bk[r].uploadedAt)
         => gunzipOk(bucket[bk[r].day].body)

\* C22: once a run has uploaded with a positive retention horizon, until and
\* when it ends, the object it stored is in the bucket under the run's key
\* with the LastModified of the upload, the run has sent no delete for that
\* key, and the bucket holds an archive.
C22_OwnArchiveSurvivesCleanup ==
  \A r \in RunIds :
    (bk[r].uploaded /\ retentionEnabled)
    => /\ bk[r].day \in DOMAIN bucket
       /\ bucket[bk[r].day].lm = bk[r].uploadedAt
       /\ bk[r].day \notin bk[r].attempted
       /\ Archives(bucket) # {}

\* C22 witness: a run with a positive horizon ended successfully after its
\* cleanup listed its own archive and deleted an older one.
C22_Witness ==
  \E r \in RunIds :
    /\ bk[r].pc = "done" /\ bk[r].outcome = "ok" /\ bk[r].cleanup = "ok"
    /\ retentionEnabled
    /\ bk[r].deleted # {}
    /\ bk[r].day \in DOMAIN bk[r].seen
    /\ bk[r].day \in ListedKeys(bk[r].seen)
    /\ bk[r].day \in DOMAIN bucket

\* The collection c of database d is in the snapshot, in a database in scope.
Named(backup, d, c) == \E p \in Restored(backup) : p[1] = d /\ p[2].name = c

\* Sequence s is the beginning of sequence t.
IsPrefix(s, t) == Len(s) <= Len(t) /\ \A i \in 1..Len(s) : t[i] = s[i]

\* C23: in every restore, ended or under way, a collection of the target
\* that the snapshot does not name receives no operation and is left as it
\* was; without --drop every collection that existed still exists and its
\* documents are the ones it held, in their order, followed by the inserted.
C23_OnlyNamedCollectionsChange ==
  /\ \A h \in Range(hist) : \A d \in DbNames, c \in CollNames :
       /\ ~Named(h.backup, d, c)
            => /\ h.after[d][c] = h.before[d][c]
               /\ \A i \in Writes(h.log) : ~(h.log[i].db = d /\ h.log[i].coll = c)
       /\ ~h.dropExisting
            => /\ h.before[d][c].exists => h.after[d][c].exists
               /\ IsPrefix(h.before[d][c].docs, h.after[d][c].docs)
  /\ rs.pc # "idle" => \A d \in DbNames, c \in CollNames :
       /\ ~Named(rs.backup, d, c) => db[d][c] = rs.before[d][c]
       /\ ~rs.dropExisting
            => /\ rs.before[d][c].exists => db[d][c].exists
               /\ IsPrefix(rs.before[d][c].docs, db[d][c].docs)

\* C23 witness: a restore without --drop added documents to a collection that
\* held some, and a restore with --drop replaced a collection that held
\* documents, on a target with a collection that is in no snapshot.
C23_Witness ==
  /\ \E h \in Range(hist) : \E d \in DbNames, c \in CollNames :
       /\ ~h.dropExisting /\ h.exit = 0
       /\ h.before[d][c].docs # <<>>
       /\ Len(h.after[d][c].docs) > Len(h.before[d][c].docs)
  /\ \E h \in Range(hist) : \E d \in DbNames, c \in CollNames :
       /\ h.dropExisting /\ h.exit = 0
       /\ Named(h.backup, d, c)
       /\ h.before[d][c].docs # <<>>
       /\ \E e \in DbNames, f \in CollNames :
            ~Named(h.backup, e, f) /\ h.before[e][f].docs # <<>>

\* C24: a run whose ListObjectsV2 or DeleteObject was rejected is not failed:
\* it has uploaded, it stops the cleanup and ends with outcome ok, and the
\* object it stored is in the bucket.
C24_CleanupFailureNotFatal ==
  \A r \in RunIds :
    bk[r].cleanup = "error"
    => /\ bk[r].uploaded /\ ~bk[r].failed
       /\ bk[r].pc \in {"close", "done"}
       /\ bk[r].pc = "done" => bk[r].outcome = "ok"
       /\ bk[r].day \in DOMAIN bucket
       /\ bucket[bk[r].day].lm = bk[r].uploadedAt

\* C24 witness: a run ended after one delete of its cleanup went through and
\* the next was rejected.
C24_Witness ==
  \E r \in RunIds :
    /\ bk[r].pc = "done" /\ bk[r].cleanup = "error"
    /\ bk[r].deleted # {}
    /\ bk[r].attempted \ bk[r].deleted # {}

====
